---- MODULE Spec2Model ----
(***************************************************************************)
(* Model of saas/api/transactions.py (djaodjin-saas): the list endpoints   *)
(* over the double-entry ledger with their balance / statement-balance /  *)
(* total envelopes, the transfers reconciliation flag, the statement      *)
(* balance query and the balance cancellation.                            *)
(*                                                                         *)
(* The ledger is a sequence of Transaction rows in commit order, so the   *)
(* ledger state a database query saw is identified by the length the      *)
(* ledger had when the query ran.  Every database query of a handler is   *)
(* one step; handlers run concurrently with each other and with the       *)
(* upstream billing code that appends transactions.                       *)
(*                                                                         *)
(* The free-text search (q) and the sort order (o, ot) come from the       *)
(* extra_views mixins; requests here carry neither, so a list is the date  *)
(* range of its base queryset in ledger order.                             *)
(***************************************************************************)
EXTENDS Integers, Sequences, FiniteSets, TLC

VARIABLES ledger, req

vars == <<ledger, req>>

(* ------------------------------ bounds -------------------------------- *)

\* Largest number of transactions the upstream billing code appends.
MaxLedger == 2

\* The two request handlers (workers) that can be in flight together.
Handlers == {"h1", "h2"}

(* ------------------------------- data --------------------------------- *)

\* Optional values: None is the empty tuple, Some(x) the one-element tuple.
None == << >>
Some(x) == <<x>>

\* The wall clock read by DateRangeMixin when ends_at is not given; every
\* transaction of the fixture was created before it.
Now == 3

Orgs == {"cowork", "xia"}

Funds == <<"F", "u", "n", "d", "s">>
Refund == <<"R", "e", "f", "u", "n", "d">>
Liability == <<"L", "i", "a", "b">>
Writeoff == <<"W", "r", "i", "t", "e", "o", "f", "f">>

Txn(at, oorg, oacc, oamt, ounit, dorg, dacc, damt, dunit, rec) ==
    [created_at |-> at,
     orig_organization |-> oorg, orig_account |-> oacc,
     orig_amount |-> oamt, orig_unit |-> ounit,
     dest_organization |-> dorg, dest_account |-> dacc,
     dest_amount |-> damt, dest_unit |-> dunit,
     reconciled |-> rec]

\* The transactions the upstream billing / payment code can record.
Fixtures ==
    { Txn(0, "xia", Liability, 5, "usd", "cowork", Funds, 5, "usd", TRUE),
      Txn(1, "cowork", Funds, 3, "usd", "xia", Liability, 3, "usd", TRUE),
      Txn(2, "xia", Refund, 1, "usd", "cowork", Funds, 2, "usd", FALSE),
      Txn(1, "xia", Funds, 6, "eur", "cowork", Liability, 7, "usd", TRUE),
      Txn(2, "xia", Liability, -4, "eur", "cowork", Refund, -4, "eur", FALSE) }

(* --------------------- query primitives of the store ------------------ *)

\* Case folding used by the icontains lookups.
Lower(c) ==
    CASE c = "F" -> "f" [] c = "U" -> "u" [] c = "N" -> "n" [] c = "R" -> "r"
      [] c = "L" -> "l" [] c = "W" -> "w" [] OTHER -> c

\* Django's icontains lookup: case-insensitive substring match.
icontains(s, sub) ==
    \E i \in 0..(Len(s) - Len(sub)) :
        \A j \in 1..Len(sub) : Lower(s[i + j]) = Lower(sub[j])

\* DateRangeMixin: view.ends_at is the ends_at parameter, or now without it.
view_ends_at(ends_at) == IF ends_at = None THEN Now ELSE ends_at[1]

\* DateRangeMixin: created_at in [start_at, ends_at), an absent bound is open.
InDateRange(t, start_at, ends_at) ==
    /\ (start_at /= None => start_at[1] <= t.created_at)
    /\ t.created_at < view_ends_at(ends_at)

RECURSIVE SeqSumDest(_)
SeqSumDest(rows) ==
    IF rows = << >> THEN 0 ELSE Head(rows).dest_amount + SeqSumDest(Tail(rows))

RECURSIVE SeqSumOrig(_)
SeqSumOrig(rows) ==
    IF rows = << >> THEN 0 ELSE Head(rows).orig_amount + SeqSumOrig(Tail(rows))

\* Unit reported for the sum of an empty set of transactions.
DefaultUnit == "usd"

Raised == [err |-> TRUE, amount |-> 0, unit |-> "none"]

\* models.sum_dest_amount: {amount, unit} of the destination side; an empty
\* set sums to 0 in the default unit, a set in several units is an error.
sum_dest_amount(rows) ==
    LET units == {rows[i].dest_unit : i \in DOMAIN rows} IN
    IF rows = << >> THEN [err |-> FALSE, amount |-> 0, unit |-> DefaultUnit]
    ELSE IF Cardinality(units) > 1 THEN Raised
    ELSE [err |-> FALSE, amount |-> SeqSumDest(rows),
          unit |-> CHOOSE u \in units : TRUE]

\* models.sum_orig_amount: the same over the origin side.
sum_orig_amount(rows) ==
    LET units == {rows[i].orig_unit : i \in DOMAIN rows} IN
    IF rows = << >> THEN [err |-> FALSE, amount |-> 0, unit |-> DefaultUnit]
    ELSE IF Cardinality(units) > 1 THEN Raised
    ELSE [err |-> FALSE, amount |-> SeqSumOrig(rows),
          unit |-> CHOOSE u \in units : TRUE]

(* --------------------------- list assembly ---------------------------- *)

\* TransactionFilterMixin.get_queryset: the date range applied to the
\* endpoint's base queryset.
TransactionFilterMixin_get_queryset(rows, start_at, ends_at) ==
    LET Test(t) == InDateRange(t, start_at, ends_at) IN SelectSeq(rows, Test)

\* TransactionQuerysetMixin.get_queryset: every transaction, or with a
\* selector those whose destination or origin account contains it.
TransactionQuerysetMixin_get_queryset(rows, selector) ==
    LET Test(t) == \/ icontains(t.dest_account, selector[1])
                   \/ icontains(t.orig_account, selector[1])
    IN IF selector /= None THEN SelectSeq(rows, Test) ELSE rows

\* The queryset TransactionListAPIView hands to its paginator.
TransactionList_queryset(rows, selector, start_at, ends_at) ==
    TransactionFilterMixin_get_queryset(
        TransactionQuerysetMixin_get_queryset(rows, selector),
        start_at, ends_at)

\* queryset.filter(dest_account__icontains=view.selector)
filter_dest_account(rows, selector) ==
    LET Test(t) == icontains(t.dest_account, selector[1])
    IN SelectSeq(rows, Test)

\* queryset.filter(orig_account__icontains=view.selector)
filter_orig_account(rows, selector) ==
    LET Test(t) == icontains(t.orig_account, selector[1])
    IN SelectSeq(rows, Test)

\* The destination side summed over the whole scoped set.
dest_rows_unfiltered(queryset, selector) == queryset

\* BalancePagination.paginate_queryset: the rows summed on each side.
dest_rows(queryset, selector) ==
    IF selector /= None THEN filter_dest_account(queryset, selector)
    ELSE queryset

\* The origin side filtered on the destination account.
orig_rows_by_dest_account(queryset, selector) ==
    IF selector /= None THEN filter_dest_account(queryset, selector)
    ELSE queryset

orig_rows(queryset, selector) ==
    IF selector /= None THEN filter_orig_account(queryset, selector)
    ELSE queryset

\* The subtraction with its operands exchanged.
balance_amount_swapped(dest_totals, orig_totals) ==
    orig_totals.amount - dest_totals.amount

\* self.balance_amount = dest_totals['amount'] - orig_totals['amount']
balance_amount(dest_totals, orig_totals) ==
    dest_totals.amount - orig_totals.amount

\* self.balance_unit = dest_totals['unit']
balance_unit(dest_totals, orig_totals) == dest_totals.unit

\* PageNumberPagination.paginate_queryset: the rows of page `page`.
NumPages(count, page_size) ==
    IF count = 0 THEN 1 ELSE (count + page_size - 1) \div page_size

PageRows(queryset, page, page_size) ==
    LET lo == (page - 1) * page_size + 1
        hi == IF page * page_size < Len(queryset) THEN page * page_size
              ELSE Len(queryset)
    IN SubSeq(queryset, lo, hi)

(* ------------------------------ requests ------------------------------ *)

Selectors == {None, Some(<<"F", "U", "N">>)}
DateRanges == {<<None, None>>, <<Some(1), Some(2)>>}
Pages == {1, 2}
PageSizes == {1, 2}

HTTP_200_OK == 200
HTTP_204_NO_CONTENT == 204
HTTP_400_BAD_REQUEST == 400
HTTP_404_NOT_FOUND == 404

\* A handler that serves no request.
Idle ==
    [kind |-> "idle", pc |-> "idle", org |-> "", selector |-> None,
     start_at |-> None, ends_at |-> None, page |-> 0, page_size |-> 0,
     force |-> None, reconcile |-> None, calls |-> << >>,
     dest_totals |-> None, orig_totals |-> None, aggregate |-> None,
     count |-> 0, results |-> << >>, status |-> 0,
     n1 |-> 0, n2 |-> 0, n3 |-> 0]

Amount(a, u) == [amount |-> a, unit |-> u]

\* The envelope with its aggregate summed again over the rows of the page.
Paginated_aggregate_of_page(r, queryset, n) ==
    IF r.page > NumPages(Len(queryset), r.page_size)
    THEN [r EXCEPT !.pc = "done", !.status = HTTP_404_NOT_FOUND,
                   !.aggregate = None, !.n3 = n]
    ELSE LET rows == PageRows(queryset, r.page, r.page_size)
         IN [r EXCEPT !.pc = "done", !.status = HTTP_200_OK,
                      !.count = Len(queryset), !.results = rows, !.n3 = n,
                      !.aggregate =
                         IF r.kind = "transactions"
                         THEN Some(Amount(
                            sum_dest_amount(dest_rows(rows, r.selector)).amount
                            - sum_orig_amount(orig_rows(rows, r.selector)).amount,
                            r.aggregate[1].unit))
                         ELSE Some(Amount(sum_orig_amount(rows).amount,
                                          r.aggregate[1].unit))]

\* super().paginate_queryset followed by get_paginated_response: the count
\* and the rows of the requested page, or 404 for a page past the last one.
Paginated(r, queryset, n) ==
    IF r.page > NumPages(Len(queryset), r.page_size)
    THEN [r EXCEPT !.pc = "done", !.status = HTTP_404_NOT_FOUND,
                   !.aggregate = None, !.n3 = n]
    ELSE [r EXCEPT !.pc = "done", !.status = HTTP_200_OK,
                   !.count = Len(queryset),
                   !.results = PageRows(queryset, r.page, r.page_size),
                   !.n3 = n]

\* An aggregate that raised ends the request before any envelope is built.
Failed(r) == [r EXCEPT !.pc = "done", !.status = HTTP_400_BAD_REQUEST,
                       !.aggregate = None]

Init ==
    /\ ledger = << >>
    /\ req = [h \in Handlers |-> Idle]

\* Upstream billing / payment processing records a transaction.
record_transaction(t) ==
    /\ Len(ledger) < MaxLedger
    /\ ledger' = Append(ledger, t)
    /\ UNCHANGED req

(* ------------------- GET /transactions (balance envelope) ------------- *)

\* BalancePagination.paginate_queryset up to the destination sum.
BalancePagination_dest(h, selector, range, page, page_size) ==
    /\ req[h].pc = "idle"
    /\ LET n == Len(ledger)
           queryset == TransactionList_queryset(ledger, selector,
                                                range[1], range[2])
           dest_totals == sum_dest_amount(dest_rows(queryset, selector))
           r == [Idle EXCEPT !.kind = "transactions",
                             !.selector = selector,
                             !.start_at = range[1], !.ends_at = range[2],
                             !.page = page, !.page_size = page_size,
                             !.n1 = n]
       IN req' = [req EXCEPT ![h] =
                    IF dest_totals.err THEN Failed(r)
                    ELSE [r EXCEPT !.pc = "orig",
                                   !.dest_totals = Some(dest_totals)]]
    /\ UNCHANGED ledger

\* The origin sum, then the balance and its unit.
BalancePagination_orig(h) ==
    /\ req[h].kind = "transactions"
    /\ req[h].pc = "orig"
    /\ LET r == req[h]
           queryset == TransactionList_queryset(ledger, r.selector,
                                                r.start_at, r.ends_at)
           orig_totals == sum_orig_amount(orig_rows(queryset, r.selector))
           dest_totals == r.dest_totals[1]
       IN req' = [req EXCEPT ![h] =
                    IF orig_totals.err THEN Failed([r EXCEPT !.n2 = Len(ledger)])
                    ELSE [r EXCEPT !.pc = "page", !.n2 = Len(ledger),
                            !.orig_totals = Some(orig_totals),
                            !.aggregate = Some(Amount(
                                balance_amount(dest_totals, orig_totals),
                                balance_unit(dest_totals, orig_totals)))]]
    /\ UNCHANGED ledger

\* The page of the same queryset and the response envelope.
BalancePagination_page(h) ==
    /\ req[h].kind = "transactions"
    /\ req[h].pc = "page"
    /\ LET r == req[h]
           queryset == TransactionList_queryset(ledger, r.selector,
                                                r.start_at, r.ends_at)
       IN req' = [req EXCEPT ![h] = Paginated(r, queryset, Len(ledger))]
    /\ UNCHANGED ledger

TransactionListAPIView(h) ==
    \/ \E selector \in Selectors, range \in DateRanges,
          page \in Pages, page_size \in PageSizes :
            BalancePagination_dest(h, selector, range, page, page_size)
    \/ BalancePagination_orig(h)
    \/ BalancePagination_page(h)

Upstream == \E t \in Fixtures : record_transaction(t)

(* ---------- GET /billing/{organization}/receivables (total) ---------- *)

\* natural_period = relativedelta(days=-1): the default lookback, in days.
natural_period == 1

\* DateRangeMixin with a natural period: start_at defaults to one period
\* before ends_at.
receivables_start_at(start_at, ends_at) ==
    IF start_at = None THEN Some(view_ends_at(ends_at) - natural_period)
    ELSE start_at

\* Organization.receivables: the transactions owed to the provider.
receivables(rows, provider) ==
    LET Test(t) == t.dest_organization = provider IN SelectSeq(rows, Test)

\* ReceivablesQuerysetMixin.get_queryset
ReceivablesQuerysetMixin_get_queryset(rows, provider) ==
    LET Test(t) == t.orig_amount > 0
    IN SelectSeq(receivables(rows, provider), Test)

\* The queryset ReceivablesListAPIView aggregates and paginates.
Receivables_queryset(rows, provider, start_at, ends_at) ==
    TransactionFilterMixin_get_queryset(
        ReceivablesQuerysetMixin_get_queryset(rows, provider),
        start_at, ends_at)

\* TotalAnnotateMixin.get_queryset: self.totals = sum_orig_amount(queryset)
view_totals(queryset) == sum_orig_amount(queryset)

TotalAnnotateMixin_get_queryset(h, org, range, page, page_size) ==
    /\ req[h].pc = "idle"
    /\ LET start_at == receivables_start_at(range[1], range[2])
           queryset == Receivables_queryset(ledger, org, start_at, range[2])
           totals == view_totals(queryset)
           r == [Idle EXCEPT !.kind = "receivables", !.org = org,
                             !.start_at = start_at, !.ends_at = range[2],
                             !.page = page, !.page_size = page_size,
                             !.n1 = Len(ledger)]
       IN req' = [req EXCEPT ![h] =
                    IF totals.err THEN Failed(r)
                    ELSE [r EXCEPT !.pc = "page",
                            !.orig_totals = Some(totals),
                            !.aggregate = Some(Amount(totals.amount,
                                                      totals.unit))]]
    /\ UNCHANGED ledger

TotalPagination_page(h) ==
    /\ req[h].kind = "receivables"
    /\ req[h].pc = "page"
    /\ LET r == req[h]
           queryset == Receivables_queryset(ledger, r.org,
                                            r.start_at, r.ends_at)
       IN req' = [req EXCEPT ![h] = Paginated(r, queryset, Len(ledger))]
    /\ UNCHANGED ledger

ReceivablesListAPIView(h) ==
    \/ \E org \in Orgs, range \in DateRanges,
          page \in Pages, page_size \in PageSizes :
            TotalAnnotateMixin_get_queryset(h, org, range, page, page_size)
    \/ TotalPagination_page(h)

(* ------ GET /billing/{organization}/billings (statement balance) ------ *)

\* TransactionManager.get_statement_balance(organization, until): what the
\* organization received minus what it paid out, before `until` (now when
\* it is not given).
get_statement_balance(rows, organization, until) ==
    LET upto == IF until = None THEN Now ELSE until[1]
        Dest(t) == t.dest_organization = organization /\ t.created_at < upto
        Orig(t) == t.orig_organization = organization /\ t.created_at < upto
        dest == sum_dest_amount(SelectSeq(rows, Dest))
        orig == sum_orig_amount(SelectSeq(rows, Orig))
        none_dest == SelectSeq(rows, Dest) = << >>
        none_orig == SelectSeq(rows, Orig) = << >>
    IN  IF dest.err \/ orig.err THEN Raised
        ELSE IF ~none_dest /\ ~none_orig /\ dest.unit /= orig.unit THEN Raised
        ELSE [err |-> FALSE, amount |-> dest.amount - orig.amount,
              unit |-> IF none_dest THEN orig.unit ELSE dest.unit]

\* TransactionManager.by_customer: the transactions the organization is a
\* party to.
by_customer(rows, organization) ==
    LET Test(t) == \/ t.orig_organization = organization
                   \/ t.dest_organization = organization
    IN SelectSeq(rows, Test)

\* The queryset BillingsAPIView paginates.
Billings_queryset(rows, organization, start_at, ends_at) ==
    TransactionFilterMixin_get_queryset(by_customer(rows, organization),
                                        start_at, ends_at)

StatementBalancePagination_balance(h, org, range, page, page_size) ==
    /\ req[h].pc = "idle"
    /\ LET until == None
           balance == get_statement_balance(ledger, org, until)
           r == [Idle EXCEPT !.kind = "billings", !.org = org,
                             !.start_at = range[1], !.ends_at = range[2],
                             !.page = page, !.page_size = page_size,
                             !.calls = <<[organization |-> org,
                                          until |-> until]>>,
                             !.n1 = Len(ledger)]
       IN req' = [req EXCEPT ![h] =
                    IF balance.err THEN Failed(r)
                    ELSE [r EXCEPT !.pc = "page",
                            !.aggregate = Some(Amount(balance.amount,
                                                      balance.unit))]]
    /\ UNCHANGED ledger

StatementBalancePagination_page(h) ==
    /\ req[h].kind = "billings"
    /\ req[h].pc = "page"
    /\ LET r == req[h]
           queryset == Billings_queryset(ledger, r.org, r.start_at, r.ends_at)
       IN req' = [req EXCEPT ![h] = Paginated(r, queryset, Len(ledger))]
    /\ UNCHANGED ledger

BillingsAPIView(h) ==
    \/ \E org \in Orgs, range \in DateRanges,
          page \in Pages, page_size \in PageSizes :
            StatementBalancePagination_balance(h, org, range, page, page_size)
    \/ StatementBalancePagination_page(h)

(* ------------- GET /billing/{organization}/transfers ------------------ *)

\* Values of the `force` query parameter; None when it is not given.
Forces == {None, Some(""), Some("false"), Some("true")}

\* Python's bool() of request.GET.get('force', False): the default False is
\* false, a query-string value is true unless it is the empty string.
python_bool(force) == IF force = None THEN FALSE ELSE force[1] /= ""

\* reconcile = not bool(self.request.GET.get('force', False))
reconcile_flag(force) == ~python_bool(force)

\* Organization.get_transfers(reconcile): the provider's transfers, only
\* the reconciled ones when reconciling.
get_transfers(rows, organization, reconcile) ==
    LET Test(t) == /\ t.dest_organization = organization
                   /\ (reconcile => t.reconciled)
    IN SelectSeq(rows, Test)

\* TransferListAPIView.list: the page of transfers, or a validation error
\* in place of the ProcessorError the backend raised.
TransferListAPIView_list(h, org, force, range, page, page_size, raised) ==
    /\ req[h].pc = "idle"
    /\ LET reconcile == reconcile_flag(force)
           queryset == TransactionFilterMixin_get_queryset(
                           get_transfers(ledger, org, reconcile),
                           range[1], range[2])
           r == [Idle EXCEPT !.kind = "transfers", !.org = org,
                             !.force = force, !.reconcile = Some(reconcile),
                             !.start_at = range[1], !.ends_at = range[2],
                             !.page = page, !.page_size = page_size,
                             !.n1 = Len(ledger)]
       IN req' = [req EXCEPT ![h] =
                    IF raised THEN Failed(r)
                    ELSE Paginated(r, queryset, Len(ledger))]
    /\ UNCHANGED ledger

TransferListAPIView(h) ==
    \E org \in Orgs, force \in Forces, range \in DateRanges,
       page \in Pages, page_size \in PageSizes, raised \in BOOLEAN :
        TransferListAPIView_list(h, org, force, range, page, page_size, raised)

(* --------------- GET /billing/{organization}/balance/ ----------------- *)

StatementBalanceAPIView_get(h, org) ==
    /\ req[h].pc = "idle"
    /\ LET balance == get_statement_balance(ledger, org, None)
           r == [Idle EXCEPT !.kind = "balance", !.org = org,
                             !.n1 = Len(ledger), !.n3 = Len(ledger)]
       IN req' = [req EXCEPT ![h] =
                    IF balance.err THEN Failed(r)
                    ELSE [r EXCEPT !.pc = "done", !.status = HTTP_200_OK,
                            !.aggregate = Some(Amount(balance.amount,
                                                      balance.unit))]]
    /\ UNCHANGED ledger

StatementBalanceAPIView(h) == \E org \in Orgs : StatementBalanceAPIView_get(h, org)

(* -------------- DELETE /billing/{organization}/balance/ --------------- *)

\* The transaction that offsets a statement balance of `amount` `unit`.
cancel_transaction(organization, amount, unit) ==
    Txn(Now - 1, organization, Liability, amount, unit,
        "writeoff", Writeoff, amount, unit, TRUE)

\* Organization.create_cancel_transactions, first half: the statement
\* balance to cancel is read.
create_cancel_transactions_read(h, org) ==
    /\ req[h].pc = "idle"
    /\ LET balance == get_statement_balance(ledger, org, None)
           r == [Idle EXCEPT !.kind = "cancel", !.org = org,
                             !.n1 = Len(ledger)]
       IN req' = [req EXCEPT ![h] =
                    IF balance.err THEN Failed([r EXCEPT !.n3 = Len(ledger)])
                    ELSE [r EXCEPT !.pc = "write",
                            !.aggregate = Some(Amount(balance.amount,
                                                      balance.unit))]]
    /\ UNCHANGED ledger

\* Second half: the offsetting transaction is recorded (none for a zero
\* balance), then destroy answers 204.
create_cancel_transactions_write(h) ==
    /\ req[h].kind = "cancel"
    /\ req[h].pc = "write"
    /\ LET r == req[h]
           balance == r.aggregate[1]
       IN IF balance.amount = 0
          THEN /\ ledger' = ledger
               /\ req' = [req EXCEPT ![h] =
                            [r EXCEPT !.pc = "done", !.n3 = Len(ledger),
                                      !.status = HTTP_204_NO_CONTENT]]
          ELSE /\ ledger' = Append(ledger, cancel_transaction(
                                r.org, balance.amount, balance.unit))
               /\ req' = [req EXCEPT ![h] =
                            [r EXCEPT !.pc = "done",
                                      !.n2 = Len(ledger) + 1,
                                      !.n3 = Len(ledger) + 1,
                                      !.status = HTTP_204_NO_CONTENT]]

\* The handler answering 204 without cancelling anything.
destroy_without_cancel(h) ==
    /\ req[h].pc = "idle"
    /\ \E org \in Orgs :
         req' = [req EXCEPT ![h] =
                   [Idle EXCEPT !.kind = "cancel", !.org = org,
                                !.pc = "done", !.n1 = Len(ledger),
                                !.n3 = Len(ledger),
                                !.status = HTTP_204_NO_CONTENT]]
    /\ UNCHANGED ledger

\* DestroyAPIView's own destroy: the organization's transactions deleted.
destroy_default(h) ==
    /\ req[h].pc = "idle"
    /\ \E org \in Orgs :
         LET Keep(t) == t.orig_organization /= org /\ t.dest_organization /= org
         IN /\ ledger' = SelectSeq(ledger, Keep)
            /\ req' = [req EXCEPT ![h] =
                         [Idle EXCEPT !.kind = "cancel", !.org = org,
                                      !.pc = "done", !.n1 = Len(ledger),
                                      !.n3 = Len(ledger'),
                                      !.status = HTTP_204_NO_CONTENT]]

\* CancelStatementBalanceAPIView.destroy
destroy(h) ==
    \/ \E org \in Orgs : create_cancel_transactions_read(h, org)
    \/ create_cancel_transactions_write(h)

(* --------------------------- specifications --------------------------- *)

\* The ledger list concurrent with the upstream writers.
NextList == Upstream \/ TransactionListAPIView("h1")

SpecList == Init /\ [][NextList]_vars

\* The statement-balance list concurrent with the upstream writers.
NextBillings == Upstream \/ BillingsAPIView("h1")

SpecBillings == Init /\ [][NextBillings]_vars

\* The transfers list concurrent with the upstream writers.
NextTransfers == Upstream \/ TransferListAPIView("h1")

SpecTransfers == Init /\ [][NextTransfers]_vars

\* Two handlers cancelling and querying statement balances.
NextCancel ==
    \/ Upstream
    \/ \E h \in Handlers : destroy(h) \/ StatementBalanceAPIView(h)

SpecCancel == Init /\ [][NextCancel]_vars

\* Every endpoint of the module, one request at a time per ledger state.
Next ==
    \/ Upstream
    \/ TransactionListAPIView("h1")
    \/ BillingsAPIView("h1")
    \/ ReceivablesListAPIView("h1")
    \/ TransferListAPIView("h1")
    \/ StatementBalanceAPIView("h1")
    \/ destroy("h1")

Spec == Init /\ [][Next]_vars

\* A second request for the same list and filter as the one "h1" served,
\* for any page and page size.
Again(h) ==
    /\ req["h1"].pc = "done"
    /\ LET first == req["h1"]
           range == <<first.start_at, first.ends_at>>
       IN \E page \in Pages, page_size \in PageSizes :
            \/ /\ first.kind = "transactions"
               /\ BalancePagination_dest(h, first.selector, range,
                                         page, page_size)
            \/ /\ first.kind = "billings"
               /\ StatementBalancePagination_balance(h, first.org, range,
                                                     page, page_size)
            \/ /\ first.kind = "receivables"
               /\ TotalAnnotateMixin_get_queryset(h, first.org, range,
                                                  page, page_size)

\* The three list envelopes, and the same list asked for again.
NextPaging ==
    \/ Upstream
    \/ TransactionListAPIView("h1")
    \/ BillingsAPIView("h1")
    \/ ReceivablesListAPIView("h1")
    \/ Again("h2")
    \/ BalancePagination_orig("h2")
    \/ BalancePagination_page("h2")
    \/ StatementBalancePagination_page("h2")
    \/ TotalPagination_page("h2")

SpecPaging == Init /\ [][NextPaging]_vars

(* ------------------------ reference arithmetic ------------------------ *)

\* Lower-case spelling of the account names and selectors of the fixture.
Folded(s) ==
    [k \in DOMAIN s |->
        CASE s[k] \in {"F", "f"} -> "f" [] s[k] \in {"U", "u"} -> "u"
          [] s[k] \in {"N", "n"} -> "n" [] s[k] \in {"R", "r"} -> "r"
          [] s[k] \in {"L", "l"} -> "l" [] s[k] \in {"W", "w"} -> "w"
          [] OTHER -> s[k]]

Contains(account, sel) ==
    \E i \in 1..(Len(account) - Len(sel) + 1) :
        SubSeq(Folded(account), i, i + Len(sel) - 1) = Folded(sel)

\* Positions of the first n ledger rows inside the date range of request r.
Scoped(r, n) ==
    {i \in 1..n :
        /\ r.start_at /= None => ledger[i].created_at >= r.start_at[1]
        /\ r.ends_at /= None => ledger[i].created_at < r.ends_at[1]}

RECURSIVE DestTotal(_)
DestTotal(S) ==
    IF S = {} THEN 0
    ELSE LET i == CHOOSE x \in S : TRUE
         IN ledger[i].dest_amount + DestTotal(S \ {i})

RECURSIVE OrigTotal(_)
OrigTotal(S) ==
    IF S = {} THEN 0
    ELSE LET i == CHOOSE x \in S : TRUE
         IN ledger[i].orig_amount + OrigTotal(S \ {i})

UnitsOf(S) ==
    {ledger[i].dest_unit : i \in S} \cup {ledger[i].orig_unit : i \in S}

\* Rows of the scoped set matching the selector on the destination side,
\* and on the origin side; without a selector, the whole scoped set.
DestSide(r, n) ==
    {i \in Scoped(r, n) :
        r.selector /= None => Contains(ledger[i].dest_account, r.selector[1])}

OrigSide(r, n) ==
    {i \in Scoped(r, n) :
        r.selector /= None => Contains(ledger[i].orig_account, r.selector[1])}

\* The request got its envelope.
Answered(r) == r.pc = "done" /\ r.status = HTTP_200_OK

(* ------------------------------- claims ------------------------------- *)

\* C1: a balance-envelope request without selector, over a ledger whose
\* filtered set has a single unit (or is empty), answers with
\* balance = sum of dest_amount - sum of orig_amount over the filtered set
\* and with the unit of the destination sum.
C1_BalanceIsDestMinusOrig ==
    \A h \in Handlers :
        LET r == req[h]
            S == Scoped(r, r.n1)
        IN  ( /\ r.kind = "transactions"
              /\ r.pc = "done"
              /\ r.status /= HTTP_404_NOT_FOUND
              /\ r.selector = None
              /\ (r.dest_totals /= None => r.n2 = r.n1)
              /\ Cardinality(UnitsOf(S)) <= 1 )
            => /\ r.status = HTTP_200_OK
               /\ r.aggregate /= None
               /\ r.aggregate[1].amount = DestTotal(S) - OrigTotal(S)
               /\ r.aggregate[1].unit \in
                    (IF S = {} THEN {DefaultUnit} ELSE UnitsOf(S))

C1_Witness ==
    \E h \in Handlers :
        /\ req[h].kind = "transactions"
        /\ Answered(req[h])
        /\ req[h].selector = None
        /\ req[h].n1 = 2 /\ req[h].n2 = 2
        /\ Cardinality(UnitsOf(Scoped(req[h], 2))) = 1
        /\ req[h].aggregate[1].amount = 1

\* C2: with a selector, the destination sum counts exactly the scoped rows
\* whose dest_account contains the selector, the origin sum exactly those
\* whose orig_account contains it, and balance = destination - origin.
C2_SidesFilteredIndependently ==
    \A h \in Handlers :
        LET r == req[h] IN
        ( /\ r.kind = "transactions"
          /\ r.selector /= None
          /\ r.aggregate /= None
          /\ r.n2 = r.n1 )
        => /\ r.dest_totals[1].amount = DestTotal(DestSide(r, r.n1))
           /\ r.orig_totals[1].amount = OrigTotal(OrigSide(r, r.n1))
           /\ r.aggregate[1].amount =
                DestTotal(DestSide(r, r.n1)) - OrigTotal(OrigSide(r, r.n1))

\* A row matches on the destination side only, another on the origin only.
C2_Witness ==
    \E h \in Handlers :
        LET r == req[h] IN
        /\ r.kind = "transactions" /\ Answered(r)
        /\ r.selector /= None
        /\ r.n1 = 2 /\ r.n2 = 2
        /\ DestSide(r, 2) \ OrigSide(r, 2) /= {}
        /\ OrigSide(r, 2) \ DestSide(r, 2) /= {}
        /\ r.aggregate[1].amount = 2

\* C7: a balance over a filtered set holding more than one unit ends in a
\* validation error and returns no number.
C7_MixedUnitsRejected ==
    \A h \in Handlers :
        LET r == req[h] IN
        ( /\ r.kind = "transactions"
          /\ r.pc = "done"
          /\ r.selector = None
          /\ (r.dest_totals /= None => r.n2 = r.n1)
          /\ Cardinality(UnitsOf(Scoped(r, r.n1))) > 1 )
        => /\ r.status = HTTP_400_BAD_REQUEST
           /\ r.aggregate = None

\* C10: the balance of a balance-envelope request is destination sum -
\* origin sum over one single ledger state that existed during the request.
C10_BalanceFromOneLedgerState ==
    \A h \in Handlers :
        LET r == req[h] IN
        (r.kind = "transactions" /\ Answered(r))
        => \E k \in r.n1..r.n3 :
              r.aggregate[1].amount =
                DestTotal(DestSide(r, k)) - OrigTotal(OrigSide(r, k))

\* C10 as amended: the destination sum is taken over the ledger state of
\* the first sum query, the origin sum over the ledger state of the second
\* one, which is the same state or a later one of the same request.
C10_BalanceFromTwoReads ==
    \A h \in Handlers :
        LET r == req[h] IN
        (r.kind = "transactions" /\ Answered(r))
        => /\ r.n1 <= r.n2 /\ r.n2 <= r.n3 /\ r.n3 <= Len(ledger)
           /\ r.aggregate[1].amount =
                DestTotal(DestSide(r, r.n1)) - OrigTotal(OrigSide(r, r.n2))

\* A transaction was committed between the two sum queries.
C10_Witness ==
    \E h \in Handlers :
        LET r == req[h] IN
        /\ r.kind = "transactions" /\ Answered(r)
        /\ r.n1 < r.n2
        /\ r.aggregate[1].amount /= 0

\* C8: with the ledger unchanged, two answers to the same list and filter
\* carry the same aggregate whatever page and page size each asked for.
SameLedger(r, n) ==
    /\ r.n1 = n /\ r.n3 = n
    /\ (r.kind = "transactions" => r.n2 = n)

C8_AggregateSameOnEveryPage ==
    \A a \in Handlers, b \in Handlers :
        LET ra == req[a]
            rb == req[b]
        IN  ( /\ ra.kind \in {"transactions", "billings", "receivables"}
              /\ rb.kind = ra.kind
              /\ Answered(ra) /\ Answered(rb)
              /\ rb.selector = ra.selector /\ rb.org = ra.org
              /\ rb.start_at = ra.start_at /\ rb.ends_at = ra.ends_at
              /\ SameLedger(ra, ra.n1) /\ SameLedger(rb, ra.n1) )
            => rb.aggregate = ra.aggregate

\* Two different pages of the same list, with a non-zero aggregate.
C8_Witness ==
    /\ Answered(req["h1"]) /\ Answered(req["h2"])
    /\ req["h2"].kind = req["h1"].kind
    /\ SameLedger(req["h1"], 2) /\ SameLedger(req["h2"], 2)
    /\ req["h1"].page /= req["h2"].page
    /\ req["h1"].results /= req["h2"].results
    /\ req["h1"].aggregate[1].amount /= 0

\* The statement balance of org over the first n rows created before upto.
StatementRef(org, n, upto) ==
    DestTotal({i \in 1..n : /\ ledger[i].dest_organization = org
                            /\ ledger[i].created_at < upto})
    - OrigTotal({i \in 1..n : /\ ledger[i].orig_organization = org
                              /\ ledger[i].created_at < upto})

\* C6: a billings list request calls the statement-balance rule exactly
\* once, with the ends_at that bounds its date filter, so its balance is the
\* statement balance as of the ends_at of the same envelope.
C6_StatementBalanceAsOfEndsAt ==
    \A h \in Handlers :
        LET r == req[h] IN
        (r.kind = "billings" /\ Answered(r))
        => /\ Len(r.calls) = 1
           /\ r.calls[1].organization = r.org
           /\ r.aggregate[1].amount =
                StatementRef(r.org, r.n1,
                             IF r.ends_at = None THEN Now ELSE r.ends_at[1])

\* C5: on the transfers list reconcile = not force: without force or with
\* force=false the store reconciles and unreconciled transfers are left
\* out; with force=true it does not.
C5_ReconcileIsNotForce ==
    \A h \in Handlers :
        LET r == req[h] IN
        (r.kind = "transfers" /\ r.pc = "done")
        => /\ r.force \in {None, Some("false")}
                => /\ r.reconcile = Some(TRUE)
                   /\ \A i \in DOMAIN r.results : r.results[i].reconciled
           /\ r.force = Some("true") => r.reconcile = Some(FALSE)

C9_LedgerAppendOnly ==
    [][ /\ Len(ledger') >= Len(ledger)
        /\ \A i \in DOMAIN ledger : ledger'[i] = ledger[i]
        /\ \A h \in Handlers :
             (req'[h] /= req[h] /\ req'[h].kind /= "cancel")
                => ledger' = ledger ]_vars

\* A cancellation has added its offsetting transaction after older rows.
C9_Witness ==
    \E h \in Handlers :
        /\ req[h].kind = "cancel" /\ req[h].pc = "done"
        /\ req[h].n2 > 1
        /\ Len(ledger) >= req[h].n2

====
